---- MODULE Spec2Model ----
(***************************************************************************)
(* MediaSense playback arbitration (src/Desktop/mediasense.py).            *)
(*                                                                         *)
(* The state is the MediaSenseCore object and the configuration dictionary *)
(* it reads.  One Tick step is one execution of manage_playback: the       *)
(* enumeration (get_players), the transition classification, the pause-all *)
(* override, the arbitration against P1 and the now-playing step.  The     *)
(* players the host reports, the order it lists them in, and the outcome   *)
(* of every playerctl call are inputs of the step.                         *)
(***************************************************************************)
EXTENDS Integers, Sequences, FiniteSets, TLC

(***************************************************************************)
(* Bounds of the model.                                                    *)
(***************************************************************************)
\* Largest priority value a configuration holds (the dialog allows 1..99;
\* the code only tests priority == 1).
MaxPriority == 2

\* How many monitor threads can be alive at once (start_monitoring creates
\* a thread per call, line 372; a thread that has returned frees its slot).
MaxLoops == 2

(***************************************************************************)
(* Values.                                                                 *)
(***************************************************************************)
\* The MPRIS instances of the host, in the order `playerctl --list-all`
\* prints them (line 146).
Listing == <<"firefox.instance1", "mpv.instance7", "spotify">>

Instances == {Listing[k] : k \in 1..Len(Listing)}

\* MediaPlayer.status (line 48).
Statuses == {"Playing", "Paused", "Stopped"}

\* Python's None (last_active_player, dict.get on a missing key).
None == "None"

\* priorities.get(player_name, 10), line 178-179.
DefaultPriority == 10

\* Names that have an entry in config['priorities'] (lines 66-74); the
\* settings dialog offers one spin button per entry (line 579).
ConfiguredNames == {"firefox", "spotify"}

PriorityValues == 1..MaxPriority

\* How one `playerctl pause|play` call ends: exit status 0, a non-zero exit
\* status (check=False, so no exception), or an exception (TimeoutExpired).
Outcomes == {"ok", "error", "timeout"}

\* player_name = instance.split('.')[0].lower(), line 175.
PlayerName(instance) ==
    CASE instance = "firefox.instance1" -> "firefox"
      [] instance = "spotify"           -> "spotify"
      [] instance = "mpv.instance7"     -> "mpv"

\* default_config, lines 65-80 (the entries the model's players look up).
DefaultConfig ==
    [priorities |-> [n \in ConfiguredNames |-> IF n = "firefox" THEN 1 ELSE 2],
     notification_enabled |-> TRUE,
     pause_all_enabled |-> FALSE]

\* The configurations load_config (lines 84-100) hands to the core: the
\* defaults or what the file holds.  The pause-all branch (lines 288-297)
\* reads neither the priorities nor the notification flag, so pause-all is
\* combined with the default values of both only.
Configs ==
    {c \in [priorities : [ConfiguredNames -> PriorityValues],
            notification_enabled : BOOLEAN,
            pause_all_enabled : BOOLEAN] :
        c.pause_all_enabled =>
            c = [DefaultConfig EXCEPT !.pause_all_enabled = TRUE]}

VARIABLES
    config,                 \* MediaSenseConfig.config
    players,                \* MediaSenseCore.players, in insertion order
    last_active_player,     \* MediaSenseCore.last_active_player
    paused_by_mediasense,   \* MediaSenseCore.paused_by_mediasense
    manually_paused,        \* MediaSenseCore.manually_paused
    last_playing_states,    \* MediaSenseCore.last_playing_states
    enumerated,             \* latest tick: did `playerctl --list-all` succeed
    classified,             \* latest tick: the two sets after lines 267-279
    issued,                 \* latest tick: its playerctl pause/play calls
    notified,               \* latest tick: the instance announced, or None
    repeated,               \* latest tick saw the snapshot of the tick before
    running,                \* MediaSenseCore.running
    is_on,                  \* MediaSenseTray.is_on
    loops,                  \* where each monitor_loop thread stands
    announcements,          \* history: the latest two announcements
    silent,                 \* history: last_active_player moved unannounced
                            \* since the latest announcement
    reappeared,             \* history: enumerated by the latest tick and not
                            \* by the tick before
    detected,               \* history: added to manually_paused by the
                            \* classification of the latest tick
    tick,                   \* the manage_playback call under way, step by step
    world                   \* the players of a host left to the engine

vars == <<config, players, last_active_player, paused_by_mediasense,
          manually_paused, last_playing_states, enumerated, classified,
          issued, notified, repeated, running, is_on, loops,
          announcements, silent, reappeared, detected, tick, world>>

\* The history of the announcements, kept by SettingsSpec.
history == <<announcements, silent>>

\* The history of the enumerations and classifications, kept by
\* HistorySpec.
observed == <<reappeared, detected>>

\* The variables of the poll driver and of the tray switch.
driver == <<running, is_on, loops>>

\* The thread slots.
Loops == 1..MaxLoops

\* Positions of a monitor_loop thread (lines 363-370): no thread in the
\* slot, at the test of `while self.running`, inside manage_playback, or in
\* time.sleep.
NoLoop == "none"
AtTest == "test"
InTick == "tick"
Asleep == "sleep"

\* Absent from an enumeration: not running, or its status query failed
\* (lines 164-165, 195-202).
Absent == "Absent"

\* What one enumeration can report: for every listed instance either a
\* status or nothing, in listing order.
Snapshots ==
    {LET Test(e) == e.status # Absent
     IN SelectSeq([k \in 1..Len(Listing) |->
                      [instance |-> Listing[k], status |-> f[k]]], Test)
     : f \in [1..Len(Listing) -> Statuses \cup {Absent}]}

(***************************************************************************)
(* get_players, lines 131-208.                                             *)
(***************************************************************************)
\* The MediaPlayer built for one listed instance (lines 174-190).
MakePlayer(entry, cfg) ==
    [instance |-> entry.instance,
     name     |-> PlayerName(entry.instance),
     status   |-> entry.status,
     priority |-> IF PlayerName(entry.instance) \in DOMAIN cfg.priorities
                  THEN cfg.priorities[PlayerName(entry.instance)]
                  ELSE DefaultPriority]

\* listOk is FALSE when `playerctl --list-all` exits non-zero (line 141-144)
\* or raises (line 206-208): the result is then the empty list.  An instance
\* whose status query fails is skipped (lines 164-165, 195-202), so the
\* snapshot holds only the instances that answered.
get_players(listOk, snapshot, cfg) ==
    IF listOk
    THEN [k \in 1..Len(snapshot) |-> MakePlayer(snapshot[k], cfg)]
    ELSE <<>>

(***************************************************************************)
(* The bookkeeping sets, as a record so that the steps of one tick can be  *)
(* composed.                                                               *)
(***************************************************************************)
Book(pbm, mp) == [paused_by_mediasense |-> pbm, manually_paused |-> mp]

\* pause_player without line 240: the manual mark survives an engine pause.
pause_player_keepsManual(book, instance, outcome) ==
    IF outcome = "timeout"
    THEN book
    ELSE Book(book.paused_by_mediasense \cup {instance}, book.manually_paused)

\* pause_player, lines 230-243.  subprocess.run(check=False) returns on any
\* exit status; only an exception skips lines 238-240.
pause_player(book, instance, outcome) ==
    IF outcome = "timeout"
    THEN book
    ELSE Book(book.paused_by_mediasense \cup {instance},
              book.manually_paused \ {instance})

\* resume_player, lines 245-257.
resume_player(book, instance, outcome) ==
    IF outcome = "timeout"
    THEN book
    ELSE Book(book.paused_by_mediasense \ {instance},
              book.manually_paused \ {instance})

\* last_playing_states.get(instance), line 268.
PreviousStatus(lps, instance) ==
    IF instance \in DOMAIN lps THEN lps[instance] ELSE None

\* current_states, line 266.
CurrentStates(ps) ==
    [i \in {ps[k].instance : k \in 1..Len(ps)} |->
        ps[CHOOSE k \in 1..Len(ps) : ps[k].instance = i].status]

RECURSIVE Classify_resetsNewcomers(_, _, _)
\* Classify that takes a player without a previous status for a new one
\* and clears its marks.
Classify_resetsNewcomers(ps, lps, book) ==
    IF ps = <<>> THEN book
    ELSE LET instance == Head(ps).instance
             current_status == Head(ps).status
             previous_status == PreviousStatus(lps, instance)
             next ==
                 IF previous_status = None
                 THEN Book(book.paused_by_mediasense \ {instance},
                           book.manually_paused \ {instance})
                 ELSE IF /\ previous_status = "Playing"
                         /\ current_status = "Paused"
                         /\ instance \notin book.paused_by_mediasense
                 THEN Book(book.paused_by_mediasense,
                           book.manually_paused \cup {instance})
                 ELSE IF previous_status = "Paused" /\ current_status = "Playing"
                 THEN Book(book.paused_by_mediasense \ {instance},
                           book.manually_paused \ {instance})
                 ELSE book
         IN Classify_resetsNewcomers(Tail(ps), lps, next)

RECURSIVE Classify(_, _, _)
\* The transition classification loop, lines 267-279, over the players in
\* the iteration order of current_states.
Classify(ps, lps, book) ==
    IF ps = <<>> THEN book
    ELSE LET instance == Head(ps).instance
             current_status == Head(ps).status
             previous_status == PreviousStatus(lps, instance)
             next ==
                 IF /\ previous_status = "Playing"
                    /\ current_status = "Paused"
                    /\ instance \notin book.paused_by_mediasense
                 THEN Book(book.paused_by_mediasense,
                           book.manually_paused \cup {instance})
                 ELSE IF previous_status = "Paused" /\ current_status = "Playing"
                 THEN Book(book.paused_by_mediasense \ {instance},
                           book.manually_paused \ {instance})
                 ELSE book
         IN Classify(Tail(ps), lps, next)

\* One playerctl call: `playerctl --player <instance> pause|play`.
Cmd(c, instance) == [cmd |-> c, instance |-> instance]

\* [p.instance for p in ps if p.status == status]
WithStatus(ps, status) ==
    LET Test(p) == p.status = status
        sel == SelectSeq(ps, Test)
    IN [k \in 1..Len(sel) |-> sel[k].instance]

\* P1Index falling back to the first listed player when no player has
\* priority 1.
P1Index_defaultsToFirst(ps) ==
    IF \E k \in 1..Len(ps) : ps[k].priority = 1
    THEN CHOOSE k \in 1..Len(ps) :
             /\ ps[k].priority = 1
             /\ \A j \in 1..(k - 1) : ps[j].priority # 1
    ELSE IF ps # <<>> THEN 1 ELSE 0

\* p1 = next((p for p in players if p.priority == 1), None), line 300:
\* the index of the first priority-1 player, 0 when there is none.
P1Index(ps) ==
    IF \E k \in 1..Len(ps) : ps[k].priority = 1
    THEN CHOOSE k \in 1..Len(ps) :
             /\ ps[k].priority = 1
             /\ \A j \in 1..(k - 1) : ps[j].priority # 1
    ELSE 0

\* other_players, line 301.
OtherPlayers(ps) ==
    LET Test(p) == p.priority # 1
    IN SelectSeq(ps, Test)

\* paused_others without the manually_paused test of line 326.
PausedOthers_ignoresManual(ps, mp) ==
    LET sel == OtherPlayers(ps)
        t == WithStatus(sel, "Paused")
    IN t

\* paused_others, lines 324-327.
PausedOthers(ps, mp) ==
    LET Test(p) == p.status = "Paused" /\ p.instance \notin mp
        sel == SelectSeq(OtherPlayers(ps), Test)
    IN [k \in 1..Len(sel) |-> sel[k].instance]

\* Commands whose pause-all loop leaves the priority-1 players alone.
Commands_pauseAllSparesP1(ps, pauseAll, book) ==
    IF pauseAll \/ (P1Index(ps) # 0 /\ ps[P1Index(ps)].status = "Playing")
    THEN LET t == WithStatus(OtherPlayers(ps), "Playing")
         IN [k \in 1..Len(t) |-> Cmd("pause", t[k])]
    ELSE IF P1Index(ps) # 0 /\ ps[P1Index(ps)].status = "Paused"
            /\ WithStatus(OtherPlayers(ps), "Playing") = <<>>
            /\ PausedOthers(ps, book.manually_paused) # <<>>
    THEN <<Cmd("play", PausedOthers(ps, book.manually_paused)[1])>>
    ELSE <<>>

\* Commands whose loop of lines 315-317 stops after the first pause.
Commands_pausesFirstOnly(ps, pauseAll, book) ==
    IF pauseAll
    THEN LET t == WithStatus(ps, "Playing")
         IN [k \in 1..Len(t) |-> Cmd("pause", t[k])]
    ELSE IF P1Index(ps) # 0 /\ ps[P1Index(ps)].status = "Playing"
    THEN LET t == WithStatus(OtherPlayers(ps), "Playing")
         IN IF t = <<>> THEN <<>> ELSE <<Cmd("pause", t[1])>>
    ELSE IF P1Index(ps) # 0 /\ ps[P1Index(ps)].status = "Paused"
            /\ WithStatus(OtherPlayers(ps), "Playing") = <<>>
            /\ PausedOthers(ps, book.manually_paused) # <<>>
    THEN <<Cmd("play", PausedOthers(ps, book.manually_paused)[1])>>
    ELSE <<>>

\* Commands that does not pause again a player it has on record as paused
\* by the engine.
Commands_skipsAlreadyPaused(ps, pauseAll, book) ==
    LET Fresh(t) == LET Test(i) == i \notin book.paused_by_mediasense
                    IN SelectSeq(t, Test)
    IN IF pauseAll
       THEN LET t == Fresh(WithStatus(ps, "Playing"))
            IN [k \in 1..Len(t) |-> Cmd("pause", t[k])]
       ELSE IF P1Index(ps) # 0 /\ ps[P1Index(ps)].status = "Playing"
       THEN LET t == Fresh(WithStatus(OtherPlayers(ps), "Playing"))
            IN [k \in 1..Len(t) |-> Cmd("pause", t[k])]
       ELSE IF P1Index(ps) # 0 /\ ps[P1Index(ps)].status = "Paused"
               /\ WithStatus(OtherPlayers(ps), "Playing") = <<>>
               /\ PausedOthers(ps, book.manually_paused) # <<>>
       THEN <<Cmd("play", PausedOthers(ps, book.manually_paused)[1])>>
       ELSE <<>>

\* Commands that resumes every entry of paused_others, not only the first
\* (line 329).
Commands_resumesEveryPaused(ps, pauseAll, book) ==
    IF pauseAll
    THEN LET t == WithStatus(ps, "Playing")
         IN [k \in 1..Len(t) |-> Cmd("pause", t[k])]
    ELSE IF P1Index(ps) # 0 /\ ps[P1Index(ps)].status = "Playing"
    THEN LET t == WithStatus(OtherPlayers(ps), "Playing")
         IN [k \in 1..Len(t) |-> Cmd("pause", t[k])]
    ELSE IF P1Index(ps) # 0 /\ ps[P1Index(ps)].status = "Paused"
            /\ WithStatus(OtherPlayers(ps), "Playing") = <<>>
    THEN LET t == PausedOthers(ps, book.manually_paused)
         IN [k \in 1..Len(t) |-> Cmd("play", t[k])]
    ELSE <<>>

\* Commands whose resume branch does not test p1.status == 'Paused' (line
\* 318): a Playing P1 with no other player Playing resumes one too.
Commands_resumesWhateverP1(ps, pauseAll, book) ==
    IF pauseAll
    THEN LET t == WithStatus(ps, "Playing")
         IN [k \in 1..Len(t) |-> Cmd("pause", t[k])]
    ELSE IF P1Index(ps) = 0
    THEN <<>>
    ELSE IF /\ ps[P1Index(ps)].status = "Playing"
            /\ WithStatus(OtherPlayers(ps), "Playing") # <<>>
    THEN LET t == WithStatus(OtherPlayers(ps), "Playing")
         IN [k \in 1..Len(t) |-> Cmd("pause", t[k])]
    ELSE IF /\ ps[P1Index(ps)].status \in {"Playing", "Paused"}
            /\ WithStatus(OtherPlayers(ps), "Playing") = <<>>
            /\ PausedOthers(ps, book.manually_paused) # <<>>
    THEN <<Cmd("play", PausedOthers(ps, book.manually_paused)[1])>>
    ELSE <<>>

\* Commands whose loop of lines 315-317 runs over players instead of
\* other_players.
Commands_pausesEveryPlaying(ps, pauseAll, book) ==
    IF pauseAll \/ (P1Index(ps) # 0 /\ ps[P1Index(ps)].status = "Playing")
    THEN LET t == WithStatus(ps, "Playing")
         IN [k \in 1..Len(t) |-> Cmd("pause", t[k])]
    ELSE IF P1Index(ps) # 0 /\ ps[P1Index(ps)].status = "Paused"
            /\ WithStatus(OtherPlayers(ps), "Playing") = <<>>
            /\ PausedOthers(ps, book.manually_paused) # <<>>
    THEN <<Cmd("play", PausedOthers(ps, book.manually_paused)[1])>>
    ELSE <<>>

\* The playerctl calls manage_playback makes after the classification,
\* lines 287-330, in the order it makes them.  book holds the two sets as
\* the classification left them.
Commands(ps, pauseAll, book) ==
    IF pauseAll
    THEN LET t == WithStatus(ps, "Playing")
         IN [k \in 1..Len(t) |-> Cmd("pause", t[k])]
    ELSE IF P1Index(ps) = 0
    THEN <<>>
    ELSE IF ps[P1Index(ps)].status = "Playing"
    THEN LET t == WithStatus(OtherPlayers(ps), "Playing")
         IN [k \in 1..Len(t) |-> Cmd("pause", t[k])]
    ELSE IF ps[P1Index(ps)].status = "Paused"
    THEN IF /\ WithStatus(OtherPlayers(ps), "Playing") = <<>>
            /\ PausedOthers(ps, book.manually_paused) # <<>>
         THEN <<Cmd("play", PausedOthers(ps, book.manually_paused)[1])>>
         ELSE <<>>
    ELSE <<>>

RECURSIVE Execute(_, _, _)
\* Runs the calls in order; out gives the outcome of the call for each
\* targeted instance.
Execute(cmds, out, book) ==
    IF cmds = <<>> THEN book
    ELSE LET c == Head(cmds)
             next == IF c.cmd = "pause"
                     THEN pause_player(book, c.instance, out[c.instance])
                     ELSE resume_player(book, c.instance, out[c.instance])
         IN Execute(Tail(cmds), out, next)

\* Does this tick reach the now-playing step (line 334)?  The pause-all
\* branch returns at line 297 and the no-P1 branch at line 311.
ReachesNowPlaying(ps, pauseAll) == ~pauseAll /\ P1Index(ps) # 0

\* last_active_player after lines 334-338.
NextActive(ps, pauseAll, lap) ==
    IF ReachesNowPlaying(ps, pauseAll) /\ WithStatus(ps, "Playing") # <<>>
    THEN WithStatus(ps, "Playing")[1]
    ELSE lap

\* Notification without the comparison of line 337.
Notification_noDedup(ps, cfg, lap) ==
    IF /\ ReachesNowPlaying(ps, cfg.pause_all_enabled)
       /\ WithStatus(ps, "Playing") # <<>>
       /\ cfg.notification_enabled
    THEN WithStatus(ps, "Playing")[1]
    ELSE None

\* Notification without the test of notification_enabled (line 339).
Notification_ignoresFlag(ps, cfg, lap) ==
    IF /\ ReachesNowPlaying(ps, cfg.pause_all_enabled)
       /\ WithStatus(ps, "Playing") # <<>>
       /\ WithStatus(ps, "Playing")[1] # lap
    THEN WithStatus(ps, "Playing")[1]
    ELSE None

\* The instance _send_notification is called for (lines 337-343), or None.
Notification(ps, cfg, lap) ==
    IF /\ ReachesNowPlaying(ps, cfg.pause_all_enabled)
       /\ WithStatus(ps, "Playing") # <<>>
       /\ WithStatus(ps, "Playing")[1] # lap
       /\ cfg.notification_enabled
    THEN WithStatus(ps, "Playing")[1]
    ELSE None

(***************************************************************************)
(* Actions.                                                                *)
(***************************************************************************)
Init ==
    /\ config \in Configs
    /\ players = <<>>
    /\ last_active_player = None
    /\ paused_by_mediasense = {}
    /\ manually_paused = {}
    /\ last_playing_states = <<>>
    /\ enumerated = TRUE
    /\ classified = Book({}, {})
    /\ issued = <<>>
    /\ notified = None
    /\ repeated = FALSE
    /\ running = FALSE
    /\ is_on = FALSE
    /\ loops = [t \in Loops |-> NoLoop]
    /\ announcements = <<>>
    /\ silent = FALSE
    /\ reappeared = {}
    /\ detected = {}
    /\ tick = [pc |-> "idle", snapshot |-> <<>>, built |-> <<>>,
               start |-> config, pause_all |-> config.pause_all_enabled]
    /\ world = [frozen |-> FALSE, status |-> [i \in Instances |-> Absent]]

\* manage_playback from line 265 on, with the list ps that get_players
\* returned; the outcome of each playerctl call is an input.
Arbitrate(listOk, ps) ==
    \E book1 \in {Classify(ps, last_playing_states,
                           Book(paused_by_mediasense, manually_paused))} :
    \E cmds \in {Commands(ps, config.pause_all_enabled, book1)} :
    \E out \in [{cmds[k].instance : k \in 1..Len(cmds)} -> Outcomes] :
    \E book2 \in {Execute(cmds, out, book1)} :
        /\ players' = ps
        /\ last_playing_states' = CurrentStates(ps)
        /\ paused_by_mediasense' = book2.paused_by_mediasense
        /\ manually_paused' = book2.manually_paused
        /\ last_active_player' =
               NextActive(ps, config.pause_all_enabled, last_active_player)
        /\ notified' = Notification(ps, config, last_active_player)
        /\ enumerated' = listOk
        /\ classified' = book1
        /\ issued' = [k \in 1..Len(cmds) |->
                         [cmd |-> cmds[k].cmd, instance |-> cmds[k].instance,
                          outcome |-> out[cmds[k].instance]]]
        /\ repeated' = (ps = players)
        /\ UNCHANGED config

\* manage_playback, lines 259-348, run without a settings change during
\* it.  Its inputs are the result of the enumeration and the outcome of
\* each playerctl call it makes.
ManagePlayback(listOk, snapshot) ==
    \E ps \in {get_players(listOk, snapshot, config)} : Arbitrate(listOk, ps)

\* A tick whose enumeration answers.  Spec is the engine taken alone, one
\* manage_playback after the other; the driver is left out of it.
Tick ==
    /\ \E snapshot \in Snapshots : ManagePlayback(TRUE, snapshot)
    /\ UNCHANGED <<driver, history, observed, tick, world>>

\* A tick whose `playerctl --list-all` fails or times out.
TickListFails ==
    /\ ManagePlayback(FALSE, <<>>)
    /\ UNCHANGED <<driver, history, observed, tick, world>>

Next ==
    \/ Tick
    \/ TickListFails

Spec == Init /\ [][Next]_vars

(***************************************************************************)
(* The poll driver: start_monitoring, stop_monitoring and monitor_loop     *)
(* (lines 359-380), switched by the tray (lines 692-700).                  *)
(***************************************************************************)
\* The engine state a thread works on matters little to the driver: the
\* host of this specification runs at most one player.
MonitorSnapshots == {s \in Snapshots : Len(s) <= 1}

\* start_monitoring, lines 359-375: sets the flag and starts a new thread,
\* whatever the flag was and whatever threads exist.
start_monitoring ==
    /\ running' = TRUE
    /\ \E t \in Loops :
           /\ loops[t] = NoLoop
           /\ loops' = [loops EXCEPT ![t] = AtTest]

\* stop_monitoring, lines 377-380: clears the flag; it touches no thread.
stop_monitoring ==
    /\ running' = FALSE
    /\ UNCHANGED loops

\* toggle_mediasense, lines 692-700.
ToggleMediasense ==
    /\ IF is_on
       THEN stop_monitoring /\ is_on' = FALSE
       ELSE start_monitoring /\ is_on' = TRUE
    /\ UNCHANGED <<config, players, last_active_player, paused_by_mediasense,
                   manually_paused, last_playing_states, enumerated,
                   classified, issued, notified, repeated, history, observed, tick, world>>

\* LoopTest of a loop that never reads the flag (`while True`).
LoopTest_ignoresRunning(t) ==
    /\ loops[t] = AtTest
    /\ loops' = [loops EXCEPT ![t] = InTick]
    /\ UNCHANGED <<config, players, last_active_player, paused_by_mediasense,
                   manually_paused, last_playing_states, enumerated,
                   classified, issued, notified, repeated, running, is_on,
                   history, observed, tick, world>>

\* `while self.running`, line 364: the thread enters manage_playback or
\* returns.
LoopTest(t) ==
    /\ loops[t] = AtTest
    /\ loops' = [loops EXCEPT ![t] = IF running THEN InTick ELSE NoLoop]
    /\ UNCHANGED <<config, players, last_active_player, paused_by_mediasense,
                   manually_paused, last_playing_states, enumerated,
                   classified, issued, notified, repeated, running, is_on,
                   history, observed, tick, world>>

\* self.manage_playback(), line 366, run by thread t to its end.
LoopTick(t) ==
    /\ loops[t] = InTick
    /\ \/ \E snapshot \in MonitorSnapshots : ManagePlayback(TRUE, snapshot)
       \/ ManagePlayback(FALSE, <<>>)
    /\ loops' = [loops EXCEPT ![t] = Asleep]
    /\ UNCHANGED <<running, is_on, history, observed, tick, world>>

\* time.sleep returns (line 367, or line 370 after an exception).
LoopWake(t) ==
    /\ loops[t] = Asleep
    /\ loops' = [loops EXCEPT ![t] = AtTest]
    /\ UNCHANGED <<config, players, last_active_player, paused_by_mediasense,
                   manually_paused, last_playing_states, enumerated,
                   classified, issued, notified, repeated, running, is_on,
                   history, observed, tick, world>>

MonitorInit == Init /\ config = DefaultConfig

MonitorNext ==
    \/ ToggleMediasense
    \/ \E t \in Loops : LoopTest(t)
    \/ \E t \in Loops : LoopTick(t)
    \/ \E t \in Loops : LoopWake(t)

MonitorSpec == MonitorInit /\ [][MonitorNext]_vars

\* A thread inside manage_playback gets to run: every playerctl call is
\* bounded by a timeout (lines 138, 161, 218, 235, 250).
MonitorFairSpec == MonitorSpec /\ \A t \in Loops : WF_vars(LoopTick(t))

(***************************************************************************)
(* The settings dialog (lines 636-650) between the ticks.                  *)
(***************************************************************************)
\* What the dialog holds when OK is clicked: a value per spin button
\* (lines 587-592) and the two check boxes.  The spin buttons open with the
\* priorities in force (line 590) and the user of this specification leaves
\* them there.
DialogValues ==
    [priorities : {config.priorities},
     notification_enabled : BOOLEAN,
     pause_all_enabled : BOOLEAN]

\* on_settings_ok, lines 636-650: writes the dialog's values into the
\* configuration dictionary the core reads.
on_settings_ok(c) ==
    /\ config' = c
    /\ UNCHANGED <<players, last_active_player, paused_by_mediasense,
                   manually_paused, last_playing_states, enumerated,
                   classified, issued, notified, repeated, driver, history,
                   observed, tick, world>>

OnSettingsOk == \E c \in DialogValues : on_settings_ok(c)

\* The host of this specification runs the first two players of the
\* listing only.
SettingsSnapshots ==
    {s \in Snapshots : \A k \in 1..Len(s) : s[k].instance # Listing[3]}

\* Keeps the history of a tick: the announcement it made, if any, and
\* whether it moved last_active_player without one.
Record ==
    IF notified' # None
    THEN /\ announcements' =
                (IF announcements = <<>> THEN <<>>
                 ELSE <<announcements[Len(announcements)]>>)
                \o <<[instance |-> notified', silent |-> silent]>>
         /\ silent' = FALSE
    ELSE /\ announcements' = announcements
         /\ silent' = (silent \/ last_active_player' # last_active_player)

SettingsTick ==
    /\ \/ \E snapshot \in SettingsSnapshots : ManagePlayback(TRUE, snapshot)
       \/ ManagePlayback(FALSE, <<>>)
    /\ Record
    /\ UNCHANGED <<driver, observed, tick, world>>

SettingsNext ==
    \/ SettingsTick
    \/ OnSettingsOk

SettingsInit == Init /\ config = DefaultConfig

SettingsSpec == SettingsInit /\ [][SettingsNext]_vars

(***************************************************************************)
(* manage_playback in the monitor thread, step by step, beside the         *)
(* settings dialog in the GTK thread.  The configuration dictionary is     *)
(* read where the code reads it: once per player for its priority (line    *)
(* 178), then for pause_all_enabled (line 288) and notification_enabled    *)
(* (line 339).                                                             *)
(***************************************************************************)
\* The host of this specification runs the two players with a configured
\* priority, each Playing or Paused, and its playerctl calls succeed.
RaceSnapshots ==
    {s \in Snapshots :
        /\ Len(s) = Cardinality(ConfiguredNames)
        /\ \A k \in 1..Len(s) : /\ PlayerName(s[k].instance) \in ConfiguredNames
                                 /\ s[k].status # "Stopped"}

\* Here the user also turns the spin buttons: the priorities stay as
\* they are by default or P1 and the secondary are swapped.
RaceDialogValues ==
    [priorities : {DefaultConfig.priorities,
                   [n \in ConfiguredNames |->
                       IF DefaultConfig.priorities[n] = 1 THEN 2 ELSE 1]},
     notification_enabled : BOOLEAN,
     pause_all_enabled : BOOLEAN]

\* manage_playback is called and `playerctl --list-all` answers (lines
\* 262, 134-147).
RaceBegin ==
    /\ tick.pc = "idle"
    /\ \E snapshot \in RaceSnapshots :
           tick' = [tick EXCEPT !.pc = "enumerating", !.snapshot = snapshot,
                                !.built = <<>>, !.start = config]
    /\ UNCHANGED <<config, players, last_active_player, paused_by_mediasense,
                   manually_paused, last_playing_states, enumerated,
                   classified, issued, notified, repeated, driver, history,
                   observed, world>>

\* One turn of the loop of lines 151-193: the next player is built with
\* the priority the dictionary holds now.
RaceStatus ==
    /\ tick.pc = "enumerating"
    /\ Len(tick.built) < Len(tick.snapshot)
    /\ tick' = [tick EXCEPT !.built =
                    Append(@, MakePlayer(tick.snapshot[Len(@) + 1], config))]
    /\ UNCHANGED <<config, players, last_active_player, paused_by_mediasense,
                   manually_paused, last_playing_states, enumerated,
                   classified, issued, notified, repeated, driver, history,
                   observed, world>>

\* get_players has returned; lines 265-348 run with the dictionary as it is
\* now.
RaceArbitrate ==
    /\ tick.pc = "enumerating"
    /\ Len(tick.built) = Len(tick.snapshot)
    /\ Arbitrate(TRUE, tick.built)
    /\ \A k \in 1..Len(issued') : issued'[k].outcome = "ok"
    /\ tick' = [tick EXCEPT !.pc = "idle",
                            !.pause_all = config.pause_all_enabled]
    /\ UNCHANGED <<driver, history, observed, world>>

\* The OK button of the dialog, clicked at any moment.
RaceSettingsOk == \E c \in RaceDialogValues : on_settings_ok(c)

RaceInit == Init /\ config = DefaultConfig

RaceNext ==
    \/ RaceBegin
    \/ RaceStatus
    \/ RaceArbitrate
    \/ RaceSettingsOk

RaceSpec == RaceInit /\ [][RaceNext]_vars

(***************************************************************************)
(* The engine left alone with a host: from the moment the host is frozen   *)
(* its players change status only by the engine's calls, which all succeed *)
(* and take effect before the next tick.                                   *)
(***************************************************************************)
\* What an enumeration of the frozen host reports.
SnapshotOf(status) ==
    LET Test(e) == e.status # Absent
    IN SelectSeq([k \in 1..Len(Listing) |->
                     [instance |-> Listing[k], status |-> status[Listing[k]]]],
                 Test)

\* The statuses once the calls is have acted: `playerctl pause` leaves its
\* player Paused, `playerctl play` leaves it Playing.
Effect(status, is) ==
    [i \in Instances |->
        IF \E k \in 1..Len(is) : is[k].instance = i
        THEN LET k == CHOOSE j \in 1..Len(is) : is[j].instance = i
             IN IF is[k].cmd = "pause" THEN "Paused" ELSE "Playing"
        ELSE status[i]]

\* A tick before the freeze: the users and the players do as they like,
\* one player showing at a time.
SettleFreeTick ==
    /\ ~world.frozen
    /\ \/ \E snapshot \in MonitorSnapshots : ManagePlayback(TRUE, snapshot)
       \/ ManagePlayback(FALSE, <<>>)
    /\ UNCHANGED <<driver, history, observed, tick, world>>

\* From here on nobody but the engine touches the players.
Freeze ==
    /\ ~world.frozen
    /\ \E status \in [Instances -> Statuses \cup {Absent}] :
           world' = [frozen |-> TRUE, status |-> status]
    /\ UNCHANGED <<config, players, last_active_player, paused_by_mediasense,
                   manually_paused, last_playing_states, enumerated,
                   classified, issued, notified, repeated, driver, history,
                   observed, tick>>

\* A tick on the frozen host.
SettleTick ==
    /\ world.frozen
    /\ ManagePlayback(TRUE, SnapshotOf(world.status))
    /\ \A k \in 1..Len(issued') : issued'[k].outcome = "ok"
    /\ world' = [world EXCEPT !.status = Effect(@, issued')]
    /\ UNCHANGED <<driver, history, observed, tick>>

SettleInit == Init

SettleNext ==
    \/ SettleFreeTick
    \/ Freeze
    \/ SettleTick

SettleSpec == SettleInit /\ [][SettleNext]_vars

\* The monitor loop keeps ticking (lines 364-367).
SettleFairSpec == SettleSpec /\ WF_vars(SettleTick)

(***************************************************************************)
(* The engine with the history of its latest tick.                         *)
(***************************************************************************)
\* Keeps what the tick found new: the instances it enumerated that the tick
\* before had not, and the instances its classification marked.
Remember ==
    /\ reappeared' = {players'[k].instance : k \in 1..Len(players')}
                         \ {players[k].instance : k \in 1..Len(players)}
    /\ detected' = classified'.manually_paused \ manually_paused

HistoryTick ==
    /\ \/ \E snapshot \in Snapshots : ManagePlayback(TRUE, snapshot)
       \/ ManagePlayback(FALSE, <<>>)
    /\ Remember
    /\ UNCHANGED <<driver, history, tick, world>>

HistoryNext == HistoryTick

\* The default configuration: firefox is P1, mpv and spotify are secondaries.
HistoryInit == Init /\ config = DefaultConfig

HistorySpec == HistoryInit /\ [][HistoryNext]_vars

(***************************************************************************)
(* Vocabulary of the properties: what the latest tick saw and did.         *)
(***************************************************************************)
\* The status the latest enumeration reported for an instance.
SeenStatus(ps, i) ==
    IF \E k \in 1..Len(ps) : ps[k].instance = i
    THEN ps[CHOOSE k \in 1..Len(ps) : ps[k].instance = i].status
    ELSE Absent

Seen == {players[k].instance : k \in 1..Len(players)}

\* How many calls of one kind the latest tick made for an instance.
Count(c, i) ==
    Cardinality({k \in 1..Len(issued) :
                    issued[k].cmd = c /\ issued[k].instance = i})

NoResume == \A k \in 1..Len(issued) : issued[k].cmd # "play"
NoPause == \A k \in 1..Len(issued) : issued[k].cmd # "pause"

\* The priority-1 players of the latest enumeration, by position.
PriorityOnes == {k \in 1..Len(players) : players[k].priority = 1}

\* P1: the first priority-1 player in enumeration order.
HasP1 == PriorityOnes # {}
P1 == players[CHOOSE k \in PriorityOnes : \A j \in PriorityOnes : k <= j]

\* Every player of the latest enumeration but P1.
Others == Seen \ {P1.instance}

PauseAllOff == ~config.pause_all_enabled

(***************************************************************************)
(* C1.  After every completed tick no player id is in both                 *)
(* paused_by_mediasense and manually_paused.                               *)
(***************************************************************************)
C1_NeverInBothSets == paused_by_mediasense \cap manually_paused = {}

\* The engine paused (and recorded) a player that the classification of the
\* same tick had left marked as manually paused.
C1_Witness ==
    \E k \in 1..Len(issued) :
        /\ issued[k].cmd = "pause"
        /\ issued[k].outcome # "timeout"
        /\ issued[k].instance \in classified.manually_paused
        /\ issued[k].instance \in paused_by_mediasense

(***************************************************************************)
(* C2.  In a tick with pause_all_enabled the calls are exactly one pause   *)
(* for each player the snapshot shows Playing, whatever its priority, and  *)
(* nothing else; no resume is issued.                                      *)
(***************************************************************************)
C2_PauseAllPausesExactlyThePlaying ==
    config.pause_all_enabled =>
        /\ NoResume
        /\ \A i \in Instances :
               Count("pause", i) =
                   IF SeenStatus(players, i) = "Playing" THEN 1 ELSE 0

\* Pause-all with a Playing priority-1 player, a Playing secondary and a
\* player that is not Playing.
C2_Witness ==
    /\ config.pause_all_enabled
    /\ Len(issued) = 2
    /\ \E k \in 1..Len(players) :
           players[k].priority = 1 /\ players[k].status = "Playing"
    /\ \E k \in 1..Len(players) :
           players[k].priority # 1 /\ players[k].status = "Playing"
    /\ \E k \in 1..Len(players) : players[k].status = "Paused"

(***************************************************************************)
(* C3.  Pause-all off and a unique priority-1 player that is Playing:      *)
(* every other Playing player gets exactly one pause, no player that is    *)
(* not Playing gets one, and no resume is issued.                          *)
(***************************************************************************)
C3_P1PlayingPausesOthers ==
    (PauseAllOff /\ Cardinality(PriorityOnes) = 1 /\ P1.status = "Playing") =>
        /\ NoResume
        /\ \A i \in Others :
               SeenStatus(players, i) = "Playing" => Count("pause", i) = 1
        /\ \A i \in Instances :
               SeenStatus(players, i) # "Playing" => Count("pause", i) = 0

\* P1 Playing with two other players Playing, both paused by the tick.
C3_Witness ==
    /\ PauseAllOff /\ Cardinality(PriorityOnes) = 1 /\ P1.status = "Playing"
    /\ Cardinality({i \in Others : SeenStatus(players, i) = "Playing"}) = 2
    /\ Len(issued) = 2

(***************************************************************************)
(* C8.  Pause-all off and no player with priority 1: the tick issues no    *)
(* pause and no resume, whatever the statuses and the prior state.         *)
(***************************************************************************)
C8_NoP1NoCommands ==
    (PauseAllOff /\ ~HasP1) => issued = <<>>

\* No priority-1 player among the players, one Playing and one Paused, with
\* bookkeeping left over from earlier ticks.
C8_Witness ==
    /\ PauseAllOff /\ ~HasP1 /\ enumerated
    /\ Len(players) = 2
    /\ \E i \in Seen : SeenStatus(players, i) = "Playing"
    /\ \E i \in Seen : SeenStatus(players, i) = "Paused"
                       /\ i \in paused_by_mediasense
    /\ issued = <<>>

(***************************************************************************)
(* C4.  Pause-all off, P1 Paused, no other player Playing and at least one *)
(* other player Paused and not in manually_paused (as the classification   *)
(* of the tick left it): exactly one resume is issued, for the first such  *)
(* player in enumeration order, and no pause.                              *)
(***************************************************************************)
\* The other players the claim calls resumable, by position.
Resumable ==
    {k \in 1..Len(players) :
        /\ players[k].instance \in Others
        /\ players[k].status = "Paused"
        /\ players[k].instance \notin classified.manually_paused}

C4_ResumesFirstResumable ==
    (/\ PauseAllOff /\ HasP1 /\ P1.status = "Paused"
     /\ \A i \in Others : SeenStatus(players, i) # "Playing"
     /\ Resumable # {}) =>
        /\ Len(issued) = 1
        /\ issued[1].cmd = "play"
        /\ issued[1].instance =
               players[CHOOSE k \in Resumable : \A j \in Resumable : k <= j].instance

(***************************************************************************)
(* C5.  Running the tick twice in a row on the same unchanged snapshot     *)
(* issues no pause and no resume in the second tick.                       *)
(***************************************************************************)
C5_SecondTickIssuesNothing == repeated => issued = <<>>

\* The calls of a tick without their outcomes.
Calls(is) == [k \in 1..Len(is) |-> Cmd(is[k].cmd, is[k].instance)]

\* C5 as amended: the second of two ticks on the same snapshot issues
\* exactly the calls the first one issued (none when the first issued none).
C5_SecondTickRepeatsFirst ==
    [][repeated' => Calls(issued') = Calls(issued)]_vars

\* A second tick on the same snapshot that issued a call.
C5_Witness == repeated /\ issued # <<>> /\ enumerated

(***************************************************************************)
(* C6.  If a player is observed Playing in one tick and Paused in the      *)
(* next, and the engine issued no pause for it in the earlier tick, its id *)
(* is in manually_paused after the later tick.                             *)
(***************************************************************************)
C6_ManualPauseDetected ==
    [][\A i \in Instances :
          (/\ PreviousStatus(last_playing_states, i) = "Playing"
           /\ SeenStatus(players', i) = "Paused"
           /\ Count("pause", i) = 0)
          => i \in manually_paused']_vars

(***************************************************************************)
(* C7.  No tick issues a resume for a player that is in manually_paused    *)
(* after the tick's classification; with P1 Paused and every Paused other  *)
(* player in manually_paused the tick issues no calls.                     *)
(***************************************************************************)
ResumesNoManual ==
    \A k \in 1..Len(issued) :
        issued[k].cmd = "play" =>
            issued[k].instance \notin classified.manually_paused

AllPausedOthersManual ==
    /\ HasP1 /\ P1.status = "Paused"
    /\ \A i \in Others :
           SeenStatus(players, i) = "Paused" => i \in classified.manually_paused

C7_NeverResumesManual ==
    /\ ResumesNoManual
    /\ AllPausedOthersManual => issued = <<>>

\* C7 as amended: the second half holds with pause-all off.
C7_NeverResumesManualUnlessPauseAll ==
    /\ ResumesNoManual
    /\ (PauseAllOff /\ AllPausedOthersManual) => issued = <<>>

\* Scenario C: P1 Paused, a Paused secondary that is manually paused, no
\* call issued.
C7_Witness ==
    /\ PauseAllOff /\ AllPausedOthersManual /\ enumerated
    /\ \E i \in Others : SeenStatus(players, i) = "Paused"
    /\ issued = <<>>

(***************************************************************************)
(* C9.  A tick whose enumeration fails or times out leaves                 *)
(* last_playing_states, paused_by_mediasense, manually_paused and          *)
(* last_active_player as they were and issues no call.                     *)
(***************************************************************************)
C9_FailedEnumerationChangesNothing ==
    [][~enumerated' =>
          /\ last_playing_states' = last_playing_states
          /\ paused_by_mediasense' = paused_by_mediasense
          /\ manually_paused' = manually_paused
          /\ last_active_player' = last_active_player
          /\ issued' = <<>>]_vars

(***************************************************************************)
(* C10.  A pause or resume whose playerctl call fails (non-zero exit or    *)
(* timeout) changes neither paused_by_mediasense nor manually_paused for   *)
(* its target; a failed pause never adds the id to paused_by_mediasense.   *)
(***************************************************************************)
C10_FailedCallLeavesBookkeeping ==
    \A k \in 1..Len(issued) :
        issued[k].outcome # "ok" =>
            /\ (issued[k].instance \in paused_by_mediasense) =
                   (issued[k].instance \in classified.paused_by_mediasense)
            /\ (issued[k].instance \in manually_paused) =
                   (issued[k].instance \in classified.manually_paused)

(***************************************************************************)
(* C14.  Pause-all off and P1 present but not Playing: once the calls of   *)
(* the tick have taken effect, at most one player with a priority other    *)
(* than 1 is Playing.                                                      *)
(***************************************************************************)
\* The status of a player once the calls of the latest tick have acted on
\* it: a pause that ran leaves it Paused, a play that ran leaves it Playing.
StatusAfter(i) ==
    IF \E k \in 1..Len(issued) :
           issued[k].instance = i /\ issued[k].outcome = "ok"
    THEN LET k == CHOOSE j \in 1..Len(issued) :
                      issued[j].instance = i /\ issued[j].outcome = "ok"
         IN IF issued[k].cmd = "pause" THEN "Paused" ELSE "Playing"
    ELSE SeenStatus(players, i)

\* The secondaries Playing after the latest tick.
PlayingSecondaries ==
    {k \in 1..Len(players) :
        /\ players[k].priority # 1
        /\ StatusAfter(players[k].instance) = "Playing"}

C14_AtMostOneSecondaryPlays ==
    (PauseAllOff /\ HasP1 /\ P1.status # "Playing") =>
        Cardinality(PlayingSecondaries) <= 1

(***************************************************************************)
(* C15.  With pause-all off no tick issues a pause for P1, the first       *)
(* priority-1 player in enumeration order.                                 *)
(***************************************************************************)
C15_NeverPausesP1 ==
    (PauseAllOff /\ HasP1) => Count("pause", P1.instance) = 0

\* P1 is Playing and the tick paused another player, not P1.
C15_Witness ==
    /\ PauseAllOff /\ HasP1 /\ P1.status = "Playing"
    /\ Len(issued) = 1
    /\ issued[1].cmd = "pause"
    /\ issued[1].instance # P1.instance

(***************************************************************************)
(* C16.  Several players with priority 1, pause-all off: P1 is the first   *)
(* of them, and when P1 is Playing every remaining player that is Playing, *)
(* the other priority-1 players included, gets a pause.                    *)
(***************************************************************************)
C16_OtherPriorityOnesArePaused ==
    (PauseAllOff /\ Cardinality(PriorityOnes) > 1 /\ P1.status = "Playing") =>
        \A i \in Others :
            SeenStatus(players, i) = "Playing" => Count("pause", i) >= 1

(***************************************************************************)
(* C17.  Pause-all off, P1 Stopped, no other player Playing and at least   *)
(* one other player Paused and not in manually_paused: exactly one resume  *)
(* is issued, for the first such player in enumeration order.              *)
(***************************************************************************)
C17_StoppedP1ResumesLikePaused ==
    (/\ PauseAllOff /\ Cardinality(PriorityOnes) = 1 /\ P1.status = "Stopped"
     /\ \A i \in Others : SeenStatus(players, i) # "Playing"
     /\ Resumable # {}) =>
        /\ Len(issued) = 1
        /\ issued[1].cmd = "play"
        /\ issued[1].instance =
               players[CHOOSE k \in Resumable : \A j \in Resumable : k <= j].instance

(***************************************************************************)
(* C18.  Pause-all off and no player with priority 1: the tick still does  *)
(* the now-playing step.  If some player is Playing and the first Playing  *)
(* player differs from last_active_player, last_active_player becomes that *)
(* player and it is announced (when notifications are enabled).            *)
(***************************************************************************)
C18_NowPlayingWithoutP1 ==
    [][(/\ PauseAllOff /\ enumerated'
        /\ \A k \in 1..Len(players') : players'[k].priority # 1
        /\ WithStatus(players', "Playing") # <<>>
        /\ WithStatus(players', "Playing")[1] # last_active_player) =>
           /\ last_active_player' = WithStatus(players', "Playing")[1]
           /\ config.notification_enabled =>
                  notified' = WithStatus(players', "Playing")[1]]_vars

(***************************************************************************)
(* Vocabulary of the now-playing properties.  A step that leaves config    *)
(* alone and changes anything is a tick.                                   *)
(***************************************************************************)
\* The Playing players the tick just made saw, in enumeration order.
NowPlaying == WithStatus(players', "Playing")

\* The tick just made got to line 334.
ReachedNowPlaying == ReachesNowPlaying(players', config.pause_all_enabled)

\* What one tick does about last_active_player and the announcement.
DedupInTick ==
    config' = config =>
        /\ notified' # None =>
               /\ NowPlaying # <<>> /\ notified' = NowPlaying[1]
               /\ notified' # last_active_player
        /\ (ReachedNowPlaying /\ NowPlaying # <<>>) =>
               last_active_player' = NowPlaying[1]
        /\ NowPlaying = <<>> =>
               (last_active_player' = last_active_player /\ notified' = None)

(***************************************************************************)
(* C19.  In a tick that reaches the now-playing step an announcement is    *)
(* made only if the first Playing player differs from last_active_player,  *)
(* which then becomes that player; with no player Playing nothing changes  *)
(* and nothing is announced.  Hence two successive announcements never     *)
(* name the same player.                                                   *)
(***************************************************************************)
C19_SuccessiveAnnouncementsDiffer ==
    [][/\ DedupInTick
       /\ Len(announcements') = 2 =>
              announcements'[1].instance # announcements'[2].instance]_vars

\* C19 as amended: two successive announcements name different players
\* unless last_active_player moved unannounced between them.
C19_AnnouncementsDifferUnlessSilenced ==
    [][/\ DedupInTick
       /\ (Len(announcements') = 2 /\ ~announcements'[2].silent) =>
              announcements'[1].instance # announcements'[2].instance]_vars

\* The latest tick made an announcement that follows another one, with
\* no unannounced move in between.
C19_Witness ==
    /\ notified # None
    /\ Len(announcements) = 2
    /\ ~announcements[2].silent
    /\ announcements[2].instance = notified

(***************************************************************************)
(* C20.  The announcement is made whenever the first Playing player        *)
(* changes, with notification_enabled true and with it false.              *)
(***************************************************************************)
C20_AnnouncedWhateverTheFlag ==
    [][(/\ config' = config /\ ReachedNowPlaying
        /\ NowPlaying # <<>> /\ NowPlaying[1] # last_active_player) =>
           notified' = NowPlaying[1]]_vars

\* C20 as amended: the announcement is made when notification_enabled is
\* true and not made when it is false; last_active_player moves either way.
C20_AnnouncedOnlyWhenEnabled ==
    [][(/\ config' = config /\ ReachedNowPlaying
        /\ NowPlaying # <<>> /\ NowPlaying[1] # last_active_player) =>
           /\ last_active_player' = NowPlaying[1]
           /\ notified' = IF config.notification_enabled
                           THEN NowPlaying[1] ELSE None]_vars

\* With notifications disabled a tick moved last_active_player to the
\* player now Playing and announced nothing.
C20_Witness ==
    /\ ~config.notification_enabled
    /\ silent
    /\ notified = None
    /\ WithStatus(players, "Playing") # <<>>
    /\ last_active_player = WithStatus(players, "Playing")[1]

(***************************************************************************)
(* C21.  Every tick uses one configuration, the one in force at its start: *)
(* every player of the tick has the priority that configuration gives it,  *)
(* and the pause-all and the notification decisions of the tick are those  *)
(* of that configuration.                                                  *)
(***************************************************************************)
C21_OneConfigurationPerTick ==
    tick.pc = "idle" =>
        /\ \A k \in 1..Len(players) :
               players[k].priority =
                   IF players[k].name \in DOMAIN tick.start.priorities
                   THEN tick.start.priorities[players[k].name]
                   ELSE DefaultPriority
        /\ tick.pause_all = tick.start.pause_all_enabled
        /\ notified # None => tick.start.notification_enabled

(***************************************************************************)
(* C22.  Ids of vanished players stay in manually_paused: a player in      *)
(* manually_paused that an enumeration does not list stays in it, and when *)
(* it is listed again with status Paused it is still in manually_paused    *)
(* after that tick, which issues no resume for it.                         *)
(***************************************************************************)
C22_VanishedKeepManualMark ==
    [][\A i \in manually_paused :
          /\ SeenStatus(players', i) = Absent => i \in manually_paused'
          /\ (SeenStatus(players, i) = Absent
                 /\ SeenStatus(players', i) = "Paused") =>
                 /\ i \in manually_paused'
                 /\ \A k \in 1..Len(issued') :
                        ~(issued'[k].cmd = "play" /\ issued'[k].instance = i)]_vars

\* A manually paused secondary is back, Paused, in a tick that had P1
\* Paused and nothing Playing; it was not resumed.
C22_Witness ==
    /\ PauseAllOff /\ HasP1 /\ P1.status = "Paused"
    /\ \A i \in Seen : SeenStatus(players, i) # "Playing"
    /\ \E i \in reappeared \cap manually_paused :
           /\ SeenStatus(players, i) = "Paused"
           /\ i \notin detected
           /\ Count("play", i) = 0

(***************************************************************************)
(* C23.  Pause-all off, P1 Paused: in the tick that detects the manual     *)
(* pause of the one Playing secondary no pause and no resume is issued,    *)
(* whatever other players are present and whatever their statuses.         *)
(***************************************************************************)
\* The secondaries the enumeration ps shows Playing.
SecondariesPlaying(ps) ==
    {ps[k].instance : k \in {j \in 1..Len(ps) :
                                ps[j].priority # 1 /\ ps[j].status = "Playing"}}

\* P1 of the enumeration ps is there and Paused.
P1Paused(ps) == P1Index(ps) # 0 /\ ps[P1Index(ps)].status = "Paused"

C23_NothingDoneOnManualPause ==
    [][\A a \in Instances :
          (/\ PauseAllOff
           /\ P1Paused(players) /\ P1Paused(players')
           /\ SecondariesPlaying(players) = {a}
           /\ SeenStatus(players', a) = "Paused"
           /\ a \notin manually_paused
           /\ a \in classified'.manually_paused)
          => issued' = <<>>]_vars

\* The secondaries of the enumeration ps that are Paused and outside the
\* set mp, by position.
EligibleSecondaries(ps, mp) ==
    {k \in 1..Len(ps) : /\ ps[k].priority # 1
                        /\ ps[k].status = "Paused"
                        /\ ps[k].instance \notin mp}

\* C23 as amended: the detecting tick issues no pause and no call for the
\* player the user paused; it issues nothing at all unless no secondary is
\* Playing and another secondary is Paused and not manually paused, and
\* then exactly one resume, for the first such secondary.
C23_ManualPauseLeftAlone ==
    [][\A a \in Instances :
          (/\ PauseAllOff
           /\ P1Paused(players) /\ P1Paused(players')
           /\ SecondariesPlaying(players) = {a}
           /\ SeenStatus(players', a) = "Paused"
           /\ a \notin manually_paused
           /\ a \in classified'.manually_paused)
          => LET elig == EligibleSecondaries(players',
                                            classified'.manually_paused)
             IN IF SecondariesPlaying(players') = {} /\ elig # {}
                THEN /\ Len(issued') = 1
                     /\ issued'[1].cmd = "play"
                     /\ issued'[1].instance # a
                     /\ issued'[1].instance =
                            players'[CHOOSE k \in elig :
                                        \A j \in elig : k <= j].instance
                ELSE issued' = <<>>]_vars

\* P1 Paused, the tick detected the manual pause of a secondary and
\* resumed another one.
C23_Witness ==
    /\ PauseAllOff /\ HasP1 /\ P1.status = "Paused"
    /\ \E a \in detected :
           /\ SeenStatus(players, a) = "Paused"
           /\ Len(issued) = 1
           /\ issued[1].cmd = "play"
           /\ issued[1].instance # a

(***************************************************************************)
(* C24.  The calls of one tick are of a single kind: nothing, or pauses    *)
(* only, or exactly one resume.                                            *)
(***************************************************************************)
C24_SingleKindOfCommand ==
    \/ NoResume
    \/ Len(issued) = 1

\* Two Paused secondaries could be resumed and the tick resumed one.
C24_Witness ==
    /\ Len(issued) = 1
    /\ issued[1].cmd = "play"
    /\ Cardinality(Resumable) = 2

(***************************************************************************)
(* C25.  The player a tick announces did not get a pause in that tick.     *)
(***************************************************************************)
C25_NeverAnnouncesAPausedPlayer ==
    notified # None => Count("pause", notified) = 0

(***************************************************************************)
(* C26.  Arbitration settles: once the configuration and the players are   *)
(* fixed, nobody but the engine changes a status and every call succeeds,  *)
(* the engine reaches a state from which no tick issues a pause or a       *)
(* resume.                                                                 *)
(***************************************************************************)
C26_ArbitrationSettles == <>[](world.frozen => issued = <<>>)

\* The frozen host has settled after the engine paused a secondary: P1
\* plays, the secondary is Paused, and a tick issued nothing.
C26_Witness ==
    /\ world.frozen /\ issued = <<>> /\ repeated
    /\ HasP1 /\ P1.status = "Playing"
    /\ \E i \in Others : /\ world.status[i] = "Paused"
                          /\ i \in paused_by_mediasense

(***************************************************************************)
(* Vocabulary of the driver properties.                                    *)
(***************************************************************************)
\* The threads inside manage_playback, and the threads that exist.
Ticking == {t \in Loops : loops[t] = InTick}
LiveLoops == {t \in Loops : loops[t] # NoLoop}

(***************************************************************************)
(* C11.  Under every sequence of start and stop calls, at no time are two  *)
(* executions of manage_playback in progress at once.                      *)
(***************************************************************************)
C11_SingleFlight == Cardinality(Ticking) <= 1

(***************************************************************************)
(* C12.  A start while a poll loop is alive creates no second loop: the    *)
(* number of live monitor loops never exceeds one.                         *)
(***************************************************************************)
C12_StartCreatesNoSecondLoop ==
    [][(LiveLoops # {} /\ ~is_on /\ is_on') =>
          (loops' = loops /\ Cardinality(LiveLoops') <= 1)]_vars

(***************************************************************************)
(* C13.  After stop (and until a start) the flag stays false, no thread    *)
(* starts a tick, and a tick in flight is not cut short: stop leaves every *)
(* thread where it is, and a thread inside manage_playback leaves it only  *)
(* by finishing it, which it eventually does.                              *)
(***************************************************************************)
C13_StopLetsTickFinishAndStartsNone ==
    /\ [][/\ (~running /\ running') => (~is_on /\ is_on')
          /\ (running /\ ~running') => loops' = loops
          /\ (~running /\ ~running') =>
                 \A t \in Loops :
                     /\ loops'[t] = InTick => loops[t] = InTick
                     /\ loops[t] = InTick => loops'[t] \in {InTick, Asleep}]_vars
    /\ \A t \in Loops : (loops[t] = InTick) ~> (loops[t] = Asleep)

\* stop was called while a thread was inside manage_playback.
C13_Witness == ~running /\ ~is_on /\ Ticking # {}

TypeOK ==
    /\ paused_by_mediasense \subseteq Instances
    /\ manually_paused \subseteq Instances
    /\ last_active_player \in Instances \cup {None}
    /\ DOMAIN last_playing_states \subseteq Instances
    /\ repeated \in BOOLEAN
====
